---- MODULE Spec2Model ----
(***************************************************************************)
(* exdpy: raw download (task fan-out over a worker pool, per-exchange      *)
(* shard iterator, cross-exchange merge loop) and the replay decoder       *)
(* (_RawLineProcessor), modelled from src/exdpy/raw.py and                 *)
(* src/exdpy/replay.py.                                                    *)
(***************************************************************************)
EXTENDS Integers, Sequences, FiniteSets, Bags, TLC

\* ------------------------------------------------------------------ bounds
\* Lines one exchange's fetched stream holds at most (all its shards together).
MaxLines == 2
\* Nanoseconds per minute on the model's clock (the program's is 60 * 10^9).
MinuteNanos == 2
\* Largest concurrency handed to download().
MaxConcurrency == 2

\* The exchanges of a raw request's filter, in the order of the mapping, and the
\* timestamps their lines carry.
ExchangeOrder == <<"a", "b", "c">>
Timestamps == {10, 20, 25, 30}
\* The time ranges requested, as <<start, end>>: no minute (end = start), one
\* minute, two minutes.
TimeRanges == {<<0, 0>>, <<0, 2>>, <<1, 3>>}

VARIABLES
    \* ---- raw request (_RawRequestImpl) and one download() call
    filt,        \* keys of self._filter, in the mapping's order
    start,       \* self._start
    end,         \* self._end
    tasks,       \* _download_all_shards: tasks
    taskState,   \* per task: "queued" | "running" | "ok" | "failed"
    firstError,  \* index of the task whose failure the pool observed first, 0 if none
    completed,   \* the pool's tasks in the order their workers finished them
    overtaken,   \* history: some task finished before one submitted earlier
    answers,     \* what the server answered each task (<<>> before pool.map returns)
    pool,        \* the Pool: its processes while it runs, terminated after
    mapped,      \* exc_shards: exchange -> list of shards (<<>> before pool.map returns)
    states,      \* download: states[exchange] = iterator fields and last_line
    exchanges,   \* download: exchanges
    exchange,    \* download: the local variable `exchange`
    array,       \* download: array
    pc,          \* "created" | "pool" | "merging" | "returned" | "raised"
    error,       \* the exception download() raised
    streamed,    \* lines a caller pulled out of stream()
    streamState, \* "idle" | "TypeError"
    \* ---- replay request (_ReplayRequestImpl) and its decoder (_RawLineProcessor)
    rfilter,     \* self._filter of the replay request: exchange -> list of channels
    defs,        \* _RawLineProcessor._defs
    raw_array,   \* download: the lines of array handed to the decoder so far
    returns,     \* what process_raw_line returned for each of them (NoLine for None)
    result,      \* download: result
    rpc,         \* "idle" | "new" | "rejected" | "constructed" | "decoding" | "returned" | "raised"
    rerror,      \* the exception __init__ or download() of the replay request raised
    rstream,     \* stream() of the replay request: "idle" | "TypeError"
    rstreamed,   \* lines a caller pulled out of the replay stream
    \* ---- Client(apikey, timeout)
    apikey,      \* the apikey argument
    timeout,     \* the timeout argument
    client,      \* the Client made of them, or the exception raised instead
    \* ---- a _ShardsLineIterator pulled on its own
    itr,         \* the iterator: the key of its shards, _shard_pos, _position
    pulled,      \* the lines next(itr) returned so far
    itrRaised,   \* what the last next(itr) raised: "none" | "StopIteration" | "IndexError"
    \* ---- one call of http._filter
    response,    \* _filter: res, what _download returned: status_code and content
    converted,   \* _filter: the entries of result filled so far
    fpc,         \* "idle" | "converting" | "returned" | "raised"
    ferror       \* the exception _filter raised

dvars == <<filt, start, end, tasks, taskState, firstError, completed, overtaken, answers, pool,
           mapped, states, exchanges, exchange, array, pc, error, streamed, streamState>>

rvars == <<rfilter, defs, raw_array, returns, result, rpc, rerror, rstream, rstreamed>>

cvars == <<apikey, timeout, client>>

ivars == <<itr, pulled, itrRaised>>

fvars == <<response, converted, fpc, ferror>>

vars == <<dvars, rvars, cvars, ivars, fvars>>

\* ------------------------------------------------------------------ helpers
RECURSIVE Flatten(_)
Flatten(ss) == IF ss = <<>> THEN <<>> ELSE Head(ss) \o Flatten(Tail(ss))

RECURSIVE SeqToBag(_)
SeqToBag(s) == IF s = <<>> THEN EmptyBag ELSE SetToBag({Head(s)}) (+) SeqToBag(Tail(s))

IsSorted(s) == \A i \in 1..(Len(s) - 1) : s[i].timestamp <= s[i + 1].timestamp

\* list.remove(x): the list without its first x.
RECURSIVE ListRemove(_, _)
ListRemove(s, x) ==
    IF s = <<>> THEN <<>>
    ELSE IF Head(s) = x THEN Tail(s)
    ELSE <<Head(s)>> \o ListRemove(Tail(s), x)

InList(s, x) == \E i \in 1..Len(s) : s[i] = x

NoError == [kind |-> "none", task |-> 0]
NoLine == [type |-> "None"]
NoShards == [keys |-> <<>>, shards |-> <<>>]
NoPool == [state |-> "none", processes |-> 0]
\* An argument the caller left out, and no Client yet.
NoArg == [py |-> "missing", v |-> ""]
NoClient == [state |-> "none"]
\* No answer of the transport yet.
NoResponse == [status_code |-> 0, content |-> ""]
\* No iterator made.
NoIterator == [shards |-> "", shard_pos |-> 0, position |-> 0]
\* raw.py 102: Pool(processes=concurrency)
Pool(processes) == [state |-> "running", processes |-> processes]
\* raw.py 108: pool.terminate()
Terminated == [state |-> "terminated", processes |-> 0]

\* common.TextLine
TextLine(exch, typ, ts, ch, msg) ==
    [exchange |-> exch, type |-> typ, timestamp |-> ts, channel |-> ch, message |-> msg]

\* common._convert_nanosec_to_minute
ConvertNanosecToMinute(nanosec) == nanosec \div MinuteNanos

\* ------------------------------------------------------------------ tasks
\* raw.py 89-99: per exchange the snapshot task, then one filter task per minute.
MinuteTasks(exch, s, e) ==
    LET start_minute == ConvertNanosecToMinute(s)
        end_minute == ConvertNanosecToMinute(e - 1)
        n == IF end_minute >= start_minute THEN end_minute - start_minute + 1 ELSE 0
    IN [k \in 1..n |-> [op |-> "filter", exchange |-> exch, minute |-> start_minute + k - 1]]

RECURSIVE BuildTasks(_, _, _)
BuildTasks(f, s, e) ==
    IF f = <<>> THEN <<>>
    ELSE <<[op |-> "snapshot", exchange |-> Head(f), minute |-> -1]>>
         \o MinuteTasks(Head(f), s, e)
         \o BuildTasks(Tail(f), s, e)

\* The filters requested: the first exchange, the first two, all three.
Filters == {SubSeq(ExchangeOrder, 1, n) : n \in 1..Len(ExchangeOrder)}

\* The requests made, as <<filter, time range>>: every filter with every range,
\* except that all three exchanges are only asked for snapshots (no minute).
Requests ==
    {req \in Filters \X TimeRanges : Len(req[1]) <= 2 \/ req[2][1] = req[2][2]}

Init ==
    /\ \E req \in Requests :
          /\ filt = req[1]
          /\ start = req[2][1]
          /\ end = req[2][2]
    /\ tasks = <<>>
    /\ taskState = <<>>
    /\ firstError = 0
    /\ completed = <<>>
    /\ overtaken = FALSE
    /\ answers = <<>>
    /\ pool = NoPool
    /\ mapped = NoShards
    /\ states = <<>>
    /\ exchanges = <<>>
    /\ exchange = "unbound"
    /\ array = <<>>
    /\ pc = "created"
    /\ error = NoError
    /\ streamed = <<>>
    /\ streamState = "idle"
    /\ rfilter = <<>>
    /\ defs = <<>>
    /\ raw_array = <<>>
    /\ returns = <<>>
    /\ result = <<>>
    /\ rpc = "idle"
    /\ rerror = NoError
    /\ rstream = "idle"
    /\ rstreamed = <<>>
    /\ apikey = NoArg
    /\ timeout = NoArg
    /\ client = NoClient
    /\ itr = NoIterator
    /\ pulled = <<>>
    /\ itrRaised = "none"
    /\ response = NoResponse
    /\ converted = <<>>
    /\ fpc = "idle"
    /\ ferror = "none"

\* ------------------------------------------------------------------ the server
\* What the snapshot and filter endpoints answer for one exchange: its stream
\* (non-decreasing in timestamp, as recorded) cut into one shard per task.
TimestampStreams ==
    {s \in UNION {[1..n -> Timestamps] : n \in 0..MaxLines} :
        \A i \in 1..(Len(s) - 1) : s[i] <= s[i + 1]}

\* The cuts of a stream of n lines into k consecutive shards.
Cuts(n, k) ==
    {c \in [0..k -> 0..n] :
        /\ c[0] = 0
        /\ c[k] = n
        /\ \A j \in 1..k : c[j - 1] <= c[j]}

ExchangeShardLists(k) ==
    UNION {{[j \in 1..k |-> SubSeq(s, c[j - 1] + 1, c[j])] : c \in Cuts(Len(s), k)} :
              s \in TimestampStreams}

\* What the transport hands back for one task: the filter endpoint answers 404
\* for a minute without data, every other answer is a 200 with its lines.
Answer(task, ts) ==
    [status_code |-> IF task.op = "filter" /\ ts = <<>> THEN 404 ELSE 200, content |-> ts]

\* raw.py 62-74 (_convert_snapshots_to_lines) and http.py 137-145 (_filter):
\* every line of a shard carries the exchange of the task that fetched it.
ShardLines(exch, ts) == [i \in 1..Len(ts) |-> TextLine(exch, "msg", ts[i], "ch", "m")]

\* http.py 108-165: a 404 is an empty shard, anything else is parsed line by line.
FilterShard(exch, answer) ==
    IF answer.status_code = 404 THEN <<>> ELSE ShardLines(exch, answer.content)

\* http.py 196-211 and raw.py 62-74: the snapshots as MESSAGE lines.
SnapshotShard(exch, answer) == ShardLines(exch, answer.content)

\* raw.py 76-84: the result of one task, given what the server answers.
RunnerDownloadAllShards(task, answer) ==
    IF task.op = "snapshot"
    THEN SnapshotShard(task.exchange, answer)
    ELSE FilterShard(task.exchange, answer)

RECURSIVE TaskAnswers(_, _)
TaskAnswers(f, world) ==
    IF f = <<>> THEN <<>> ELSE world[Head(f)] \o TaskAnswers(Tail(f), world)

\* ------------------------------------------------------------------ the pool
Running == {i \in 1..Len(tasks) : taskState[i] = "running"}
Failed == {i \in 1..Len(tasks) : taskState[i] = "failed"}
AllDone == \A i \in 1..Len(tasks) : taskState[i] \in {"ok", "failed"}

TaskError(i) == [kind |-> "RuntimeError", task |-> i]

\* raw.py 134-135, 88-105: download(concurrency) builds the tasks, creates the
\* pool and hands it the tasks.
Download(c) ==
    /\ UNCHANGED <<cvars, ivars, fvars>>
    /\ UNCHANGED <<completed, overtaken, answers>>
    /\ pc = "created"
    /\ tasks' = BuildTasks(filt, start, end)
    /\ taskState' = [i \in 1..Len(BuildTasks(filt, start, end)) |-> "queued"]
    /\ pool' = Pool(c)
    /\ pc' = "pool"
    /\ UNCHANGED <<filt, start, end, firstError, mapped, states, exchanges, exchange,
                   array, error, streamed, streamState, rvars>>

\* A queued task taken whatever the number of tasks being run.
TaskStartUnbounded(i) ==
    /\ UNCHANGED <<cvars, ivars, fvars>>
    /\ UNCHANGED <<completed, overtaken, answers>>
    /\ pc = "pool"
    /\ pool.state = "running"
    /\ taskState[i] = "queued"
    /\ \A j \in 1..(i - 1) : taskState[j] # "queued"
    /\ taskState' = [taskState EXCEPT ![i] = "running"]
    /\ UNCHANGED <<filt, start, end, tasks, firstError, pool, mapped,
                   states, exchanges, exchange, array, pc, error, streamed, streamState, rvars>>

\* A worker of Pool(processes=concurrency) takes the next queued task.
TaskStart(i) ==
    /\ UNCHANGED <<cvars, ivars, fvars>>
    /\ UNCHANGED <<completed, overtaken, answers>>
    /\ pc = "pool"
    /\ pool.state = "running"
    /\ taskState[i] = "queued"
    /\ \A j \in 1..(i - 1) : taskState[j] # "queued"
    /\ Cardinality(Running) < pool.processes
    /\ taskState' = [taskState EXCEPT ![i] = "running"]
    /\ UNCHANGED <<filt, start, end, tasks, firstError, pool, mapped,
                   states, exchanges, exchange, array, pc, error, streamed, streamState, rvars>>

\* _runner_download_all_shards returns its shard.
TaskSucceed(i) ==
    /\ UNCHANGED <<cvars, ivars, fvars>>
    /\ completed' = Append(completed, i)
    /\ overtaken' = (overtaken \/ \E j \in 1..(i - 1) : taskState[j] = "running")
    /\ UNCHANGED answers
    /\ pc = "pool"
    /\ pool.state = "running"
    /\ taskState[i] = "running"
    /\ taskState' = [taskState EXCEPT ![i] = "ok"]
    /\ UNCHANGED <<filt, start, end, tasks, firstError, pool, mapped,
                   states, exchanges, exchange, array, pc, error, streamed, streamState, rvars>>

\* _runner_download_all_shards raises (transport or decode error).
TaskFail(i) ==
    /\ UNCHANGED <<cvars, ivars, fvars>>
    /\ completed' = Append(completed, i)
    /\ overtaken' = (overtaken \/ \E j \in 1..(i - 1) : taskState[j] = "running")
    /\ UNCHANGED answers
    /\ pc = "pool"
    /\ pool.state = "running"
    /\ taskState[i] = "running"
    /\ taskState' = [taskState EXCEPT ![i] = "failed"]
    /\ firstError' = IF firstError = 0 THEN i ELSE firstError
    /\ UNCHANGED <<filt, start, end, tasks, pool, mapped,
                   states, exchanges, exchange, array, pc, error, streamed, streamState, rvars>>

\* ------------------------------------------------------------------ regroup
\* raw.py 110-116
RECURSIVE Regroup(_, _, _, _)
Regroup(tsk, res, i, acc) ==
    IF i > Len(res) THEN acc
    ELSE LET e == tsk[i].exchange
         IN Regroup(tsk, res, i + 1,
                IF InList(acc.keys, e)
                THEN [acc EXCEPT !.shards[e] = Append(@, res[i])]
                ELSE [keys |-> Append(acc.keys, e),
                      shards |-> (e :> <<res[i]>>) @@ acc.shards])

\* ------------------------------------------------------------------ the iterator
\* raw.py 45-48: the iterator over the shards of one exchange; _shards is the
\* list held by exc_shards[exchange], named here by its key.
ShardsLineIterator(exch) == [shards |-> exch, shard_pos |-> 0, position |-> 0]

\* raw.py 51: the test deciding that the current shard is all read.
ShardAllRead(shards, it) == Len(shards[it.shard_pos + 1]) < it.position

\* raw.py 51-54
RECURSIVE SkipReadShards(_, _)
SkipReadShards(shards, it) ==
    IF it.shard_pos < Len(shards) /\ ShardAllRead(shards, it)
    THEN SkipReadShards(shards, [it EXCEPT !.shard_pos = @ + 1, !.position = 0])
    ELSE it

\* raw.py 50-60: the line returned or the exception raised, and the iterator
\* after; excShards is exc_shards, where it0._shards lives.
ShardsLineIteratorNext(excShards, it0) ==
    LET shards == excShards[it0.shards]
        it == SkipReadShards(shards, it0)
    IN IF it.shard_pos = Len(shards)
       THEN [raised |-> "StopIteration", line |-> NoLine, it |-> it]
       ELSE IF it.position >= Len(shards[it.shard_pos + 1])
       THEN [raised |-> "IndexError", line |-> NoLine, it |-> it]
       ELSE [raised |-> "none",
             line |-> shards[it.shard_pos + 1][it.position + 1],
             it |-> [it EXCEPT !.position = @ + 1]]

\* raw.py 137-152: one cursor per exchange that has a first line.
RECURSIVE PrepareStates(_, _, _)
PrepareStates(keys, shards, acc) ==
    IF keys = <<>> \/ acc.raised # "none" THEN acc
    ELSE LET e == Head(keys)
             r == ShardsLineIteratorNext(shards, ShardsLineIterator(e))
         IN PrepareStates(Tail(keys), shards,
                CASE r.raised = "none" ->
                        [raised |-> "none",
                         exchanges |-> Append(acc.exchanges, e),
                         states |-> (e :> [iterator |-> r.it, last_line |-> r.line])
                                    @@ acc.states,
                         exchange |-> e]
                  [] r.raised = "StopIteration" -> [acc EXCEPT !.exchange = e]
                  [] OTHER -> [acc EXCEPT !.raised = r.raised, !.exchange = e])

\* ------------------------------------------------------------------ pool.map
\* The results handed back in the order the tasks were finished.
PoolMapResultsAsCompleted(tsk, content, order) ==
    [i \in 1..Len(tsk) |->
        RunnerDownloadAllShards(tsk[order[i]], Answer(tsk[order[i]], content[order[i]]))]

\* raw.py 105: pool.map(_runner_download_all_shards, tasks) returns the results
\* in the order of tasks, whatever order the workers finished them in.
PoolMapResults(tsk, content, order) ==
    [i \in 1..Len(tsk) |-> RunnerDownloadAllShards(tsk[i], Answer(tsk[i], content[i]))]

\* The failure swallowed: an empty list handed back instead of the error.
PoolMapRaiseSwallowed ==
    /\ UNCHANGED <<cvars, ivars, fvars>>
    /\ completed' = <<>>
    /\ UNCHANGED <<overtaken, answers>>
    /\ pc = "pool"
    /\ pool.state = "running"
    /\ Failed # {}
    /\ pool' = Terminated
    /\ pc' = "returned"
    /\ UNCHANGED <<filt, start, end, tasks, taskState, firstError, mapped,
                   states, exchanges, exchange, array, error, streamed, streamState, rvars>>

\* raw.py 104-108 with a failed task: pool.map re-raises the first failure it
\* observed, the finally clause terminates the pool (and with it the record of
\* what finished when), nothing is assigned.
PoolMapRaise ==
    /\ UNCHANGED <<cvars, ivars, fvars>>
    /\ completed' = <<>>
    /\ UNCHANGED <<overtaken, answers>>
    /\ pc = "pool"
    /\ pool.state = "running"
    /\ Failed # {}
    /\ pool' = Terminated
    /\ pc' = "raised"
    /\ error' = TaskError(firstError)
    /\ UNCHANGED <<filt, start, end, tasks, taskState, firstError, mapped,
                   states, exchanges, exchange, array, streamed, streamState, rvars>>

\* raw.py 104-118 and 137-152 with every task done: the results in submission
\* order, the pool terminated, the shards regrouped, the cursors prepared.
PoolMapReturn ==
    /\ UNCHANGED <<cvars, ivars, fvars>>
    /\ pc = "pool"
    /\ pool.state = "running"
    /\ AllDone
    /\ Failed = {}
    /\ \E world \in [{filt[j] : j \in 1..Len(filt)} ->
                        ExchangeShardLists(Len(tasks) \div Len(filt))] :
         \E content \in {TaskAnswers(filt, world)} :
         \E m \in {Regroup(tasks, PoolMapResults(tasks, content, completed), 1, NoShards)} :
         \E p \in {PrepareStates(m.keys, m.shards,
                       [raised |-> "none", exchanges |-> <<>>, states |-> <<>>,
                        exchange |-> "unbound"])} :
            /\ answers' = content
            /\ mapped' = m
            /\ states' = p.states
            /\ exchanges' = p.exchanges
            /\ exchange' = p.exchange
            /\ IF p.raised = "none"
               THEN pc' = "merging" /\ error' = error
               ELSE pc' = "raised" /\ error' = [kind |-> p.raised, task |-> 0]
    /\ pool' = Terminated
    /\ completed' = <<>>
    /\ UNCHANGED <<filt, start, end, tasks, taskState, firstError, overtaken,
                   array, streamed, streamState, rvars>>

\* ------------------------------------------------------------------ the merge
\* The scan taking an equal timestamp too.
RECURSIVE ArgMinTakingEqual(_, _, _, _, _)
ArgMinTakingEqual(exs, sts, i, argmin, mi) ==
    IF i < 2 THEN argmin
    ELSE LET ts == sts[exs[i]].last_line.timestamp
         IN IF ts <= mi
            THEN ArgMinTakingEqual(exs, sts, i - 1, i, ts)
            ELSE ArgMinTakingEqual(exs, sts, i - 1, argmin, mi)

\* raw.py 158-167: the index of the line to emit (1-based here); index 0 of the
\* source is the first of the list, which range(len - 2, 0, -1) never reaches.
RECURSIVE ArgMin(_, _, _, _, _)
ArgMin(exs, sts, i, argmin, mi) ==
    IF i < 2 THEN argmin
    ELSE LET ts == sts[exs[i]].last_line.timestamp
         IN IF ts < mi
            THEN ArgMin(exs, sts, i - 1, i, ts)
            ELSE ArgMin(exs, sts, i - 1, argmin, mi)

\* raw.py 163: the value `exchange` holds when the for loop is over.
LoopExchange(exs, before) == IF Len(exs) >= 3 THEN exs[2] ELSE before

\* raw.py 156-178: one iteration of the while loop.
MergeStep ==
    /\ UNCHANGED <<cvars, ivars, fvars>>
    /\ UNCHANGED <<completed, overtaken, answers>>
    /\ pc = "merging"
    /\ Len(exchanges) > 0
    /\ LET n == Len(exchanges)
           argmin == ArgMin(exchanges, states, n - 1, n,
                            states[exchanges[n]].last_line.timestamp)
           picked == exchanges[argmin]
           state == states[picked]
           r == ShardsLineIteratorNext(mapped.shards, state.iterator)
           exch == LoopExchange(exchanges, exchange)
       IN /\ array' = Append(array, state.last_line)
          /\ exchange' = exch
          /\ IF r.raised = "none"
             THEN /\ states' = [states EXCEPT ![picked] =
                                   [iterator |-> r.it, last_line |-> r.line]]
                  /\ UNCHANGED <<exchanges, pc, error>>
             ELSE /\ states' = [states EXCEPT ![picked].iterator = r.it]
                  /\ IF InList(exchanges, exch)
                     THEN /\ exchanges' = ListRemove(exchanges, exch)
                          /\ UNCHANGED <<pc, error>>
                     ELSE /\ pc' = "raised"
                          /\ error' = [kind |-> "ValueError", task |-> 0]
                          /\ UNCHANGED exchanges
    /\ UNCHANGED <<filt, start, end, tasks, taskState, firstError, pool,
                   mapped, streamed, streamState, rvars>>

\* raw.py 156 and 180: the loop is over, the list is returned.
Return ==
    /\ UNCHANGED <<cvars, ivars, fvars>>
    /\ UNCHANGED <<completed, overtaken, answers>>
    /\ pc = "merging"
    /\ Len(exchanges) = 0
    /\ pc' = "returned"
    /\ UNCHANGED <<filt, start, end, tasks, taskState, firstError, pool,
                   mapped, states, exchanges, exchange, array, error, streamed, streamState, rvars>>

\* raw.py 182-183: stream() has no body and returns None; the caller's
\* `for line in req.stream()` raises TypeError before any line is pulled.
Stream ==
    /\ UNCHANGED <<cvars, ivars, fvars>>
    /\ UNCHANGED <<completed, overtaken, answers>>
    /\ pc \in {"returned", "raised"}
    /\ streamState = "idle"
    /\ streamState' = "TypeError"
    /\ UNCHANGED <<filt, start, end, tasks, taskState, firstError, pool,
                   mapped, states, exchanges, exchange, array, pc, error, streamed, rvars>>

Next ==
    \/ \E c \in 1..MaxConcurrency : Download(c)
    \/ \E i \in 1..Len(tasks) : TaskStart(i)
    \/ \E i \in 1..Len(tasks) : TaskSucceed(i)
    \/ \E i \in 1..Len(tasks) : TaskFail(i)
    \/ PoolMapRaise
    \/ PoolMapReturn
    \/ MergeStep
    \/ Return
    \/ Stream

Spec == Init /\ [][Next]_vars

\* ================================================================== replay
\* Rows of the decoder's input handed over at most (the length of array).
MaxRawLines == 3

\* JSON values after json.loads: a string, null, or an integer of any size kept
\* as its canonical decimal digits.
Str(s) == [t |-> "str", v |-> s]
Null == [t |-> "null", v |-> ""]
PyInt(digits) == [t |-> "int", v |-> digits]

\* TextLine.message: a text (held by the JSON value it spells) or None.
JsonText(obj) == [py |-> "str", json |-> obj]
NoneValue == [py |-> "None", json |-> <<>>]
\* TextLine.channel when the line has none.
NoChannel == "<None>"

\* json.loads: the text becomes a dict.
JsonLoads(message) == [py |-> "dict", json |-> message.json]

\* common.MappingLine
MappingLine(exch, typ, ts, ch, msg) ==
    [exchange |-> exch, type |-> typ, timestamp |-> ts, channel |-> ch, message |-> msg]

DecimalDigits == {"0", "1", "2", "3", "4", "5", "6", "7", "8", "9"}
IsDecimal(s) == Len(s) > 0 /\ \A i \in 1..Len(s) : SubSeq(s, i, i) \in DecimalDigits

RECURSIVE StripLeadingZeros(_)
StripLeadingZeros(s) ==
    IF Len(s) > 1 /\ SubSeq(s, 1, 1) = "0"
    THEN StripLeadingZeros(SubSeq(s, 2, Len(s)))
    ELSE s

\* The value stored without conversion.
IntBase10Kept(value) == value

\* replay.py 86: int(value, base=10) of a decimal string.
IntBase10(value) == PyInt(StripLeadingZeros(value.v))

\* int(value, base=10) raises: TypeError for a non-string, ValueError for a
\* string that is no decimal number.
IntBase10Raised(value) ==
    IF value.t # "str" THEN "TypeError"
    ELSE IF ~IsDecimal(value.v) THEN "ValueError"
    ELSE "none"

\* '%s' of a JSON value.
FormatS(value) == IF value.t = "null" THEN "None" ELSE value.v

\* replay.py 72: channel.find('_') == -1
NoUnderscore(channel) == \A i \in 1..Len(channel) : SubSeq(channel, i, i) # "_"

StartsWith(s, prefix) == Len(s) >= Len(prefix) /\ SubSeq(s, 1, Len(prefix)) = prefix

\* The conversion without its "trade" branch.
ConvertReplayFilterToRawFilterNoTrade(f) ==
    [e \in DOMAIN f |->
        IF e = "bitmex"
        THEN {IF StartsWith(f[e][i], "orderBookL2") THEN "orderBookL2"
              ELSE f[e][i] : i \in 1..Len(f[e])}
        ELSE {f[e][i] : i \in 1..Len(f[e])}]

\* replay.py 148-164
ConvertReplayFilterToRawFilter(f) ==
    [e \in DOMAIN f |->
        IF e = "bitmex"
        THEN {IF StartsWith(f[e][i], "orderBookL2") THEN "orderBookL2"
              ELSE IF StartsWith(f[e][i], "trade") THEN "trade"
              ELSE f[e][i] : i \in 1..Len(f[e])}
        ELSE {f[e][i] : i \in 1..Len(f[e])}]

\* replay.py 45
PostFilter(f) == [e \in DOMAIN f |-> {f[e][i] : i \in 1..Len(f[e])}]

\* The definition kept as it was.
ResetDefinitionSkipped(d, line) == d

\* A START line resetting the definitions of every exchange.
ResetAllDefinitions(d, line) ==
    IF line.type = "start"
    THEN [e \in DOMAIN d \cup {line.exchange} |-> <<>>]
    ELSE d

\* replay.py 49-51: a START line resets the definitions of its exchange.
ResetDefinition(d, line) ==
    IF line.type = "start" THEN (line.exchange :> <<>>) @@ d ELSE d

\* replay.py 63: the channel has no definition yet.
NoDefinition(d, exch, channel) == channel \notin DOMAIN d[exch]

\* The channel handed on under its raw name.
NewChannelKept(exch, channel, msgObj) == [raised |-> "none", channel |-> channel]

\* replay.py 70-75: (the new channel, the exception raised)
NewChannel(exch, channel, msgObj) ==
    IF exch = "bitmex" /\ NoUnderscore(channel)
    THEN IF "pair" \in DOMAIN msgObj
         THEN [raised |-> "none", channel |-> channel \o "_" \o FormatS(msgObj["pair"])]
         ELSE [raised |-> "KeyError", channel |-> channel]
    ELSE [raised |-> "none", channel |-> channel]

\* Every line let through.
PostFilterExcludesNever(pf, exch, new_channel) == FALSE

\* replay.py 77: this channel should be excluded.
PostFilterExcludes(pf, exch, new_channel) == new_channel \notin pf[exch]

\* The fields typed as timestamp only.
TypedNamesTimestampOnly(defn) == {name \in DOMAIN defn : defn[name] = Str("timestamp")}

\* replay.py 83-84: the fields the definition types as timestamp or duration.
TypedNames(defn) ==
    {name \in DOMAIN defn : defn[name] = Str("timestamp") \/ defn[name] = Str("duration")}

\* replay.py 83-86: the exception the conversion loop raises.
ConvertRaised(defn, msgObj) ==
    IF \E name \in TypedNames(defn) : name \notin DOMAIN msgObj THEN "KeyError"
    ELSE IF \E name \in TypedNames(defn) :
               msgObj[name] # Null /\ IntBase10Raised(msgObj[name]) = "TypeError"
    THEN "TypeError"
    ELSE IF \E name \in TypedNames(defn) :
               msgObj[name] # Null /\ IntBase10Raised(msgObj[name]) = "ValueError"
    THEN "ValueError"
    ELSE "none"

\* replay.py 83-86: msgObj after the conversion loop.
Convert(defn, msgObj) ==
    [name \in DOMAIN msgObj |->
        IF name \in TypedNames(defn) /\ msgObj[name] # Null
        THEN IntBase10(msgObj[name])
        ELSE msgObj[name]]

Raised(d, kind) == [defs |-> d, out |-> NoLine, raised |-> kind]
Returned(d, line) == [defs |-> d, out |-> line, raised |-> "none"]

\* replay.py 67-99: a MESSAGE line on a channel that has a definition.
DecodeLine(d, pf, line) ==
    LET msgObj == JsonLoads(line.message).json
        nc == NewChannel(line.exchange, line.channel, msgObj)
    IN IF nc.raised # "none" THEN Raised(d, nc.raised)
       ELSE IF line.exchange \notin DOMAIN pf THEN Raised(d, "KeyError")
       ELSE IF PostFilterExcludes(pf, line.exchange, nc.channel) THEN Returned(d, NoLine)
       ELSE IF line.channel \notin DOMAIN d[line.exchange] THEN Raised(d, "KeyError")
       ELSE LET defn == d[line.exchange][line.channel].json
            IN IF ConvertRaised(defn, msgObj) # "none"
               THEN Raised(d, ConvertRaised(defn, msgObj))
               ELSE Returned(d, MappingLine(line.exchange, line.type, line.timestamp,
                                            nc.channel,
                                            [py |-> "dict", json |-> Convert(defn, msgObj)]))

\* The definition stored and the line handed on as if it were data.
LearnDefinitionAndEmit(d, line) ==
    Returned([d EXCEPT ![line.exchange] = (line.channel :> JsonLoads(line.message)) @@ @],
             MappingLine(line.exchange, line.type, line.timestamp, line.channel,
                         JsonLoads(line.message)))

\* replay.py 64-65: the message is stored as the channel's definition, None is
\* returned.
LearnDefinition(d, line) ==
    Returned([d EXCEPT ![line.exchange] = (line.channel :> JsonLoads(line.message)) @@ @],
             NoLine)

\* The call returning None for a line that is neither MESSAGE nor START.
ProcessRawLineMessagesOnly(d0, pf, line) ==
    LET d1 == ResetDefinition(d0, line)
    IN IF line.type = "start" THEN Returned(d1, line)
       ELSE IF line.type # "msg" THEN Returned(d1, NoLine)
       ELSE LET d2 == IF line.exchange \in DOMAIN d1 THEN d1
                      ELSE (line.exchange :> <<>>) @@ d1
            IN IF NoDefinition(d2, line.exchange, line.channel)
               THEN LearnDefinition(d2, line)
               ELSE DecodeLine(d2, pf, line)

\* replay.py 47-99: the definitions after the call, what it returns (NoLine for
\* None) and the exception it raises.
ProcessRawLine(d0, pf, line) ==
    LET d1 == ResetDefinition(d0, line)
    IN IF line.type # "msg" THEN Returned(d1, line)
       ELSE LET d2 == IF line.exchange \in DOMAIN d1 THEN d1
                      ELSE (line.exchange :> <<>>) @@ d1
            IN IF NoDefinition(d2, line.exchange, line.channel)
               THEN LearnDefinition(d2, line)
               ELSE DecodeLine(d2, pf, line)

\* ------------------------------------------------------------------ replay inputs
ReplayFilters ==
    { ("bitmex" :> <<"orderBookL2_XBTUSD">>),
      ("bitmex" :> <<"orderBookL2">>),
      ("bitmex" :> <<"funding_XBTUSD">>),
      ("bitmex" :> <<"tradeBin1m_XBTUSD">>),
      ("bitmex" :> <<"trade_XBTUSD">>) @@ ("bitflyer" :> <<"trade">>) }

SchemaPayload == [timestamp |-> Str("timestamp"), pair |-> Str("string")]
DataPayload == [timestamp |-> Str("1577836800000000000"), pair |-> Str("XBTUSD")]

\* A definition typing its field as duration.
DurationPayload == [timestamp |-> Str("duration"), pair |-> Str("XBTUSD")]

Payloads ==
    { SchemaPayload,
      DurationPayload,
      DataPayload,
      [timestamp |-> Null, pair |-> Str("ETHUSD")],
      [pair |-> Str("XBTUSD")] }

RecordingUrl == "wss://recorded"
LineTimestamp == 1

\* The lines a raw download for the converted filter can hand to the decoder.
RawLines(f) ==
    LET raw == ConvertReplayFilterToRawFilter(f)
    IN UNION {
         {TextLine(e, "msg", LineTimestamp, ch, JsonText(p)) : ch \in raw[e], p \in Payloads}
         \cup {TextLine(e, "send", LineTimestamp, ch, JsonText([op |-> Str("subscribe")])) :
                 ch \in raw[e]}
         \cup {TextLine(e, "start", LineTimestamp, RecordingUrl, NoneValue),
               TextLine(e, "end", LineTimestamp, RecordingUrl, NoneValue),
               TextLine(e, "err", LineTimestamp, NoChannel, NoneValue)}
         : e \in DOMAIN f}

\* The exchanges of a replay filter in the order of the mapping.
ReplayExchangeOrder == <<"bitmex", "bitflyer">>
\* The time ranges a replay request is made with: those of the raw request and
\* one that ends before it starts.
ReplayTimeRanges == TimeRanges \cup {<<3, 1>>}

\* Before replay(): no request of either kind.
InitReplay ==
    /\ rfilter = <<>>
    /\ defs = <<>>
    /\ raw_array = <<>>
    /\ returns = <<>>
    /\ result = <<>>
    /\ rpc = "new"
    /\ rerror = NoError
    /\ rstream = "idle"
    /\ rstreamed = <<>>
    /\ apikey = NoArg
    /\ timeout = NoArg
    /\ client = NoClient
    /\ itr = NoIterator
    /\ pulled = <<>>
    /\ itrRaised = "none"
    /\ response = NoResponse
    /\ converted = <<>>
    /\ fpc = "idle"
    /\ ferror = "none"
    /\ filt = <<>>
    /\ start = 0
    /\ end = 0
    /\ tasks = <<>>
    /\ taskState = <<>>
    /\ firstError = 0
    /\ completed = <<>>
    /\ overtaken = FALSE
    /\ answers = <<>>
    /\ pool = NoPool
    /\ mapped = NoShards
    /\ states = <<>>
    /\ exchanges = <<>>
    /\ exchange = "unbound"
    /\ array = <<>>
    /\ pc = "idle"
    /\ error = NoError
    /\ streamed = <<>>
    /\ streamState = "idle"

\* The range accepted whenever it does not end before it starts.
ReplayRangeRejectedWhenReversed(s, e) == s > e

\* replay.py 178: the test that rejects the time range.
ReplayRangeRejected(s, e) == s >= e

\* replay.py 167-179: _ReplayRequestImpl.__init__; the fields are assigned, then
\* the range is tested and ValueError raised, which leaves the caller no object.
ReplayRequestInit(f, range) ==
    /\ UNCHANGED <<cvars, ivars, fvars>>
    /\ UNCHANGED <<completed, overtaken, answers>>
    /\ rpc = "new"
    /\ rfilter' = f
    /\ start' = range[1]
    /\ end' = range[2]
    /\ IF ReplayRangeRejected(range[1], range[2])
       THEN rpc' = "rejected" /\ rerror' = [kind |-> "ValueError", task |-> 0]
       ELSE rpc' = "constructed" /\ rerror' = rerror
    /\ UNCHANGED <<defs, raw_array, returns, result, rstream, rstreamed>>
    /\ UNCHANGED <<filt, tasks, taskState, firstError, pool, mapped, states, exchanges,
                   exchange, array, pc, error, streamed, streamState>>

\* replay.py 183-186: the keys of the raw request's filter.
RawFilterKeys(f) == SelectSeq(ReplayExchangeOrder, LAMBDA e : e \in DOMAIN f)

\* What a raw download() of this model raises: a failed task's error, or the
\* IndexError and ValueError of its cursors and merge loop.
RawDownloadErrors == {"RuntimeError", "IndexError", "ValueError"}

\* replay.py 181-192 when req.download() returns: the raw request is made from
\* the converted filter, its tasks are issued, its list comes back and a fresh
\* decoder is made. What the list holds shows line by line in ReplayProcess.
ReplayDownload ==
    /\ UNCHANGED <<cvars, ivars, fvars>>
    /\ UNCHANGED <<completed, overtaken, answers>>
    /\ rpc = "constructed"
    /\ filt' = RawFilterKeys(rfilter)
    /\ tasks' = BuildTasks(RawFilterKeys(rfilter), start, end)
    /\ pool' = Terminated
    /\ pc' = "returned"
    /\ rpc' = "decoding"
    /\ defs' = <<>>
    /\ UNCHANGED <<rfilter, raw_array, returns, result, rerror, rstream, rstreamed>>
    /\ UNCHANGED <<start, end, taskState, firstError, mapped, states, exchanges,
                   exchange, array, error, streamed, streamState>>

\* replay.py 181-190 when req.download() raises: nothing is caught.
ReplayDownloadRaise(kind) ==
    /\ UNCHANGED <<cvars, ivars, fvars>>
    /\ UNCHANGED <<completed, overtaken, answers>>
    /\ rpc = "constructed"
    /\ filt' = RawFilterKeys(rfilter)
    /\ tasks' = BuildTasks(RawFilterKeys(rfilter), start, end)
    /\ pool' = Terminated
    /\ pc' = "raised"
    /\ error' = [kind |-> kind, task |-> 0]
    /\ rpc' = "raised"
    /\ rerror' = [kind |-> kind, task |-> 0]
    /\ UNCHANGED <<rfilter, defs, raw_array, returns, result, rstream, rstreamed>>
    /\ UNCHANGED <<start, end, taskState, firstError, mapped, states, exchanges,
                   exchange, array, streamed, streamState>>

\* replay.py 193-197: one iteration of download()'s loop over array.
ReplayProcess(line) ==
    /\ UNCHANGED <<cvars, ivars, fvars>>
    /\ rpc = "decoding"
    /\ Len(raw_array) < MaxRawLines
    /\ LET r == ProcessRawLine(defs, PostFilter(rfilter), line)
       IN /\ raw_array' = Append(raw_array, line)
          /\ defs' = r.defs
          /\ IF r.raised # "none"
             THEN /\ rpc' = "raised"
                  /\ rerror' = [kind |-> r.raised, task |-> 0]
                  /\ returns' = Append(returns, [type |-> "raised"])
                  /\ UNCHANGED result
             ELSE /\ returns' = Append(returns, r.out)
                  /\ result' = IF r.out = NoLine THEN result ELSE Append(result, r.out)
                  /\ UNCHANGED <<rpc, rerror>>
    /\ UNCHANGED <<rfilter, rstream, rstreamed, dvars>>

\* replay.py 193 and 199: array is all read, result is returned.
ReplayReturn ==
    /\ UNCHANGED <<cvars, ivars, fvars>>
    /\ rpc = "decoding"
    /\ rpc' = "returned"
    /\ UNCHANGED <<rfilter, defs, raw_array, returns, result, rerror, rstream, rstreamed, dvars>>

\* replay.py 201-202 and 102-117: stream() makes a _ReplayStreamIterator at
\* once; its __init__ makes the raw request and calls iter() on what the raw
\* stream() returns, which is None (raw.py 182-183): TypeError, before the
\* decoder is made and before anything is handed to the caller.
ReplayStream ==
    /\ UNCHANGED <<cvars, ivars, fvars>>
    /\ UNCHANGED <<completed, overtaken, answers>>
    /\ rpc = "constructed"
    /\ rstream = "idle"
    /\ filt' = RawFilterKeys(rfilter)
    /\ pc' = "created"
    /\ streamState' = "TypeError"
    /\ rstream' = "TypeError"
    /\ UNCHANGED <<rfilter, defs, raw_array, returns, result, rpc, rerror, rstreamed>>
    /\ UNCHANGED <<start, end, tasks, taskState, firstError, pool, mapped, states,
                   exchanges, exchange, array, error, streamed>>

NextReplay ==
    \/ \E f \in ReplayFilters, range \in ReplayTimeRanges : ReplayRequestInit(f, range)
    \/ ReplayDownload
    \/ \E kind \in RawDownloadErrors : ReplayDownloadRaise(kind)
    \/ \E line \in RawLines(rfilter) : ReplayProcess(line)
    \/ ReplayReturn
    \/ ReplayStream

SpecReplay == InitReplay /\ [][NextReplay]_vars

\* ================================================================== claims
Finished == pc \in {"returned", "raised"}
Fetched(e) == Flatten(mapped.shards[e])
FetchedAll == Flatten([j \in 1..Len(mapped.keys) |-> Fetched(mapped.keys[j])])

\* C1: with every exchange's shard list non-decreasing in timestamp end to end,
\* the list download() builds is non-decreasing in timestamp after every append
\* and when it is returned.
C1_OutputNonDecreasing ==
    (\A j \in 1..Len(mapped.keys) : IsSorted(Fetched(mapped.keys[j]))) => IsSorted(array)

\* C2: when every task succeeded, the returned list holds every line of every
\* fetched shard of every exchange exactly once.
C2_ReturnedComplete ==
    (pc = "returned" /\ Failed = {}) => SeqToBag(array) = SeqToBag(FetchedAll)

\* C3: "a" with lines at 10 and 30, "b" with lines at 20 and 25: download()
\* returns 10(a), 20(b), 25(b), 30(a).
C3_Scenario ==
    /\ mapped.keys = <<"a", "b">>
    /\ Fetched("a") = ShardLines("a", <<10, 30>>)
    /\ Fetched("b") = ShardLines("b", <<20, 25>>)

C3_MergedOrder ==
    (C3_Scenario /\ Finished) =>
        /\ pc = "returned"
        /\ array = ShardLines("a", <<10>>) \o ShardLines("b", <<20, 25>>)
                   \o ShardLines("a", <<30>>)

\* C4: once a fetch task has failed, download() can only fail: it never merges
\* nor returns, no result of any task is assigned, no list is built, raising is
\* possible, and what it raises is the failure the pool observed, with the pool
\* terminated.
C4_TaskFailureFailsDownload ==
    Failed # {} =>
        /\ pc \in {"pool", "raised"}
        /\ mapped = NoShards
        /\ array = <<>>
        /\ pc = "pool" => ENABLED PoolMapRaise
        /\ pc = "raised" =>
              /\ pool = Terminated
              /\ firstError \in Failed
              /\ error = TaskError(firstError)

C4_Witness ==
    /\ pc = "raised"
    /\ Failed # {}
    /\ \E i \in 1..Len(tasks) : taskState[i] = "ok"
    /\ pool = Terminated

\* C5: draining stream() yields the sequence download() returned: the same
\* timestamps and messages in the same order, and no line more.
C5_StreamEqualsDownload ==
    (pc = "returned" /\ streamState # "idle") =>
        /\ streamState = "drained"
        /\ Len(streamed) = Len(array)
        /\ \A i \in 1..Len(streamed) :
              /\ streamed[i].timestamp = array[i].timestamp
              /\ streamed[i].message = array[i].message

\* C6: when every shard of every exchange is empty, download() returns an
\* empty list and raises nothing.
C6_AllEmpty ==
    /\ mapped.keys # <<>>
    /\ \A j \in 1..Len(mapped.keys) : Fetched(mapped.keys[j]) = <<>>

C6_EmptyReturnsEmpty ==
    (C6_AllEmpty /\ Finished) => (pc = "returned" /\ array = <<>> /\ error = NoError)

\* ------------------------------------------------------------------ decoder claims
IsMessageOn(l, exch, channel) == l.type = "msg" /\ l.exchange = exch /\ l.channel = channel
IsStartOf(l, exch) == l.type = "start" /\ l.exchange = exch

\* Line k is the first MESSAGE on its channel since the decoder was created or
\* since the last START of its exchange.
FirstMessageSinceReset(h, k) ==
    /\ h[k].type = "msg"
    /\ \A j \in 1..(k - 1) :
          IsMessageOn(h[j], h[k].exchange, h[k].channel) =>
              \E i \in (j + 1)..(k - 1) : IsStartOf(h[i], h[k].exchange)

\* Line k is a MESSAGE that follows a START of its exchange with no MESSAGE on
\* its channel in between.
FirstMessageAfterStart(h, k) ==
    /\ h[k].type = "msg"
    /\ \E j \in 1..(k - 1) :
          /\ IsStartOf(h[j], h[k].exchange)
          /\ \A i \in (j + 1)..(k - 1) : ~IsMessageOn(h[i], h[k].exchange, h[k].channel)

LastLine == raw_array[Len(raw_array)]

\* C7: the first MESSAGE on a channel after decoder initialization or after a
\* START of its exchange is never emitted: process_raw_line returns None for it
\* and stores its parsed message as the channel's definition.
C7_FirstMessageIsSchemaOnly ==
    /\ \A k \in 1..Len(raw_array) :
          FirstMessageSinceReset(raw_array, k) => returns[k] = NoLine
    /\ (Len(raw_array) > 0 /\ FirstMessageSinceReset(raw_array, Len(raw_array))) =>
          /\ rpc # "raised"
          /\ LastLine.exchange \in DOMAIN defs
          /\ LastLine.channel \in DOMAIN defs[LastLine.exchange]
          /\ defs[LastLine.exchange][LastLine.channel] = JsonLoads(LastLine.message)

C7_Witness ==
    /\ Len(raw_array) = 2
    /\ FirstMessageSinceReset(raw_array, 1)
    /\ IsMessageOn(raw_array[2], raw_array[1].exchange, raw_array[1].channel)
    /\ returns[1] = NoLine
    /\ returns[2] # NoLine
    /\ returns[2].type = "msg"

\* C8: a START line of exchange E leaves E without any definition, and the next
\* MESSAGE on each channel of E is again stored as the definition and not emitted.
C8_StartClearsDefinitions ==
    /\ (Len(raw_array) > 0 /\ LastLine.type = "start") =>
          /\ LastLine.exchange \in DOMAIN defs
          /\ DOMAIN defs[LastLine.exchange] = {}
    /\ (Len(raw_array) > 0 /\ FirstMessageAfterStart(raw_array, Len(raw_array))) =>
          /\ returns[Len(raw_array)] = NoLine
          /\ defs[LastLine.exchange] = (LastLine.channel :> JsonLoads(LastLine.message))

C8_Witness ==
    /\ Len(raw_array) = 3
    /\ raw_array[1].type = "msg"
    /\ IsStartOf(raw_array[2], raw_array[1].exchange)
    /\ IsMessageOn(raw_array[3], raw_array[1].exchange, raw_array[1].channel)
    /\ raw_array[3].message # raw_array[1].message
    /\ returns[3] = NoLine
    /\ defs[raw_array[3].exchange][raw_array[3].channel] = JsonLoads(raw_array[3].message)

InRequestedFilter(l) ==
    /\ l.exchange \in DOMAIN rfilter
    /\ l.channel \in PostFilter(rfilter)[l.exchange]

\* C9 as claimed: every emitted line, of any kind, has its (exchange, channel)
\* in the requested filter.
C9_EveryEmittedLineInFilter ==
    \A i \in 1..Len(result) : InRequestedFilter(result[i])

\* C9 amended: every emitted MESSAGE line has its (exchange, channel) in the
\* requested filter; lines of the other kinds are emitted whatever their channel.
C9_EmittedMessagesInFilter ==
    \A i \in 1..Len(result) : result[i].type = "msg" => InRequestedFilter(result[i])

C9_Witness ==
    /\ \E i \in 1..Len(result) : result[i].type = "msg"
    /\ \E k \in 1..Len(raw_array) :
          /\ raw_array[k].type = "msg"
          /\ ~FirstMessageSinceReset(raw_array, k)
          /\ returns[k] = NoLine

C10_Lines ==
    << TextLine("bitmex", "start", LineTimestamp, RecordingUrl, NoneValue),
       TextLine("bitmex", "msg", LineTimestamp, "orderBookL2", JsonText(SchemaPayload)),
       TextLine("bitmex", "msg", LineTimestamp, "orderBookL2", JsonText(DataPayload)) >>

C10_Decoded ==
    MappingLine("bitmex", "msg", LineTimestamp, "orderBookL2_XBTUSD",
                [py |-> "dict",
                 json |-> [timestamp |-> PyInt("1577836800000000000"),
                           pair |-> Str("XBTUSD")]])

\* C10 as claimed: requested channel "orderBookL2" on "bitmex"; START, schema
\* line, data line: exactly one decoded MESSAGE line is emitted, on channel
\* "orderBookL2_XBTUSD" with timestamp the integer 1577836800000000000.
C10_RequestedRawChannel ==
    (rfilter = ("bitmex" :> <<"orderBookL2">>) /\ raw_array = C10_Lines) =>
        SelectSeq(result, LAMBDA l : l.type = "msg") = <<C10_Decoded>>

\* C10 amended: the same with requested channel "orderBookL2_XBTUSD": the START
\* line is passed on, the schema line returns None, the data line is emitted
\* decoded.
C10_RequestedNormalizedChannel ==
    (rfilter = ("bitmex" :> <<"orderBookL2_XBTUSD">>) /\ raw_array = C10_Lines) =>
        /\ rpc # "raised"
        /\ returns = <<C10_Lines[1], NoLine, C10_Decoded>>
        /\ SelectSeq(result, LAMBDA l : l.type = "msg") = <<C10_Decoded>>

C10_Witness ==
    /\ rfilter = ("bitmex" :> <<"orderBookL2_XBTUSD">>)
    /\ raw_array = C10_Lines
    /\ Len(result) = 2
    /\ rpc = "returned"

\* ------------------------------------------------------------------ C11
\* Line k is a MESSAGE on raw channel "trade" of "bitmex" that the decoder
\* decoded as data: its channel had a definition and nothing was raised.
IsDecodedTrade(k) ==
    /\ IsMessageOn(raw_array[k], "bitmex", "trade")
    /\ ~FirstMessageSinceReset(raw_array, k)
    /\ returns[k] # [type |-> "raised"]

TradePair(k) == raw_array[k].message.json["pair"]

\* C11: with "trade_XBTUSD" requested on "bitmex" the raw filter of "bitmex" is
\* the one raw channel "trade"; a decoded MESSAGE on "trade" is emitted exactly
\* when its normalized channel is "trade_XBTUSD", under that channel, and one
\* normalized to "trade_ETHUSD" returns None.
C11_TradeXBTUSDOnly ==
    ("bitmex" \in DOMAIN rfilter /\ rfilter["bitmex"] = <<"trade_XBTUSD">>) =>
        /\ ConvertReplayFilterToRawFilter(rfilter)["bitmex"] = {"trade"}
        /\ \A k \in 1..Len(raw_array) :
              IsDecodedTrade(k) =>
                  /\ TradePair(k) = Str("XBTUSD") =>
                        /\ returns[k] # NoLine
                        /\ returns[k].channel = "trade_XBTUSD"
                  /\ TradePair(k) = Str("ETHUSD") => returns[k] = NoLine
                  /\ returns[k] # NoLine => TradePair(k) = Str("XBTUSD")

C11_Witness ==
    /\ "bitmex" \in DOMAIN rfilter
    /\ rfilter["bitmex"] = <<"trade_XBTUSD">>
    /\ Len(raw_array) = 3
    /\ IsDecodedTrade(2) /\ TradePair(2) = Str("XBTUSD") /\ returns[2] # NoLine
    /\ IsDecodedTrade(3) /\ TradePair(3) = Str("ETHUSD") /\ returns[3] = NoLine

\* ------------------------------------------------------------------ C12, C13, C14
\* C12: a replay request made with start >= end is rejected by __init__ with
\* ValueError: it is never constructed, no raw request is made for it and no
\* fetch task is issued.
C12_InvalidRangeRejected ==
    (rpc # "new" /\ start >= end) =>
        /\ rpc = "rejected"
        /\ rerror = [kind |-> "ValueError", task |-> 0]
        /\ pc = "idle"
        /\ tasks = <<>>
        /\ rstream = "idle"

C12_Witness ==
    /\ rpc = "rejected"
    /\ rfilter \in ReplayFilters
    /\ start = end

\* C13: as long as no more than stream() has been called on a constructed
\* replay request (no iterator asked for, no download()), no raw request
\* exists, the raw stream() has not been called and no fetch task is issued.
C13_StreamIsLazy ==
    rpc = "constructed" =>
        /\ pc = "idle"
        /\ streamState = "idle"
        /\ tasks = <<>>

\* C14: draining the replay stream yields the list replay download() returns
\* for the same raw lines, line for line, and ends with end-of-sequence.
C14_StreamYieldsDownloadResult ==
    (rpc = "returned" /\ rstream # "idle") =>
        /\ rstream = "drained"
        /\ rstreamed = result

\* ------------------------------------------------------------------ C15
\* The task of the given exchange, operation and minute, by its position in tasks.
TaskIndex(e, op, minute) ==
    CHOOSE i \in 1..Len(tasks) : tasks[i] = [op |-> op, exchange |-> e, minute |-> minute]

\* The shard the server's answer to that task makes.
AnsweredShard(e, op, minute) == ShardLines(e, answers[TaskIndex(e, op, minute)])

\* C15: once the shards are regrouped, every exchange of the filter has, in
\* this order, the shard of its snapshot task and the shard of the filter task
\* of each minute from minuteOf(start) to minuteOf(end - 1), every line of them
\* carrying that exchange, whatever order the workers finished the tasks in.
C15_ShardListInTaskOrder ==
    mapped # NoShards =>
        /\ mapped.keys = filt
        /\ \A j \in 1..Len(filt) :
              LET e == filt[j]
                  first == ConvertNanosecToMinute(start)
                  last == ConvertNanosecToMinute(end - 1)
                  n == IF last >= first THEN last - first + 1 ELSE 0
                  shards == mapped.shards[e]
              IN /\ Len(shards) = n + 1
                 /\ shards[1] = AnsweredShard(e, "snapshot", -1)
                 /\ \A k \in 1..n : shards[k + 1] = AnsweredShard(e, "filter", first + k - 1)
                 /\ \A k \in 1..Len(shards) : \A l \in 1..Len(shards[k]) :
                       shards[k][l].exchange = e

\* Two exchanges, two minutes, shards that differ, and a task that finished
\* before one submitted earlier.
C15_Witness ==
    /\ mapped # NoShards
    /\ overtaken
    /\ Len(filt) = 2
    /\ Len(mapped.shards["a"]) = 3
    /\ mapped.shards["a"][2] # <<>>
    /\ mapped.shards["a"][3] # <<>>
    /\ mapped.shards["a"][2] # mapped.shards["a"][3]

\* ================================================================== client
\* Longest API key of the strings tried.
MaxKeyLen == 2

\* Arguments as Python values: a str, a float, an int, None, or left out.
PyStr(s) == [py |-> "str", v |-> s]
PyFloat(s) == [py |-> "float", v |-> s]
PyIntArg(s) == [py |-> "int", v |-> s]
PyNone == [py |-> "None", v |-> ""]

\* _utils.py 6: the characters of the class [A-Za-z0-9\-_].
KeyChars ==
    {"a", "b", "c", "d", "e", "f", "g", "h", "i", "j", "k", "l", "m",
     "n", "o", "p", "q", "r", "s", "t", "u", "v", "w", "x", "y", "z",
     "A", "B", "C", "D", "E", "F", "G", "H", "I", "J", "K", "L", "M",
     "N", "O", "P", "Q", "R", "S", "T", "U", "V", "W", "X", "Y", "Z",
     "0", "1", "2", "3", "4", "5", "6", "7", "8", "9", "-", "_"}

AllKeyChars(s) == \A i \in 1..Len(s) : SubSeq(s, i, i) \in KeyChars

\* _utils.py 6 and client.py 17: REGEX_APIKEY.match(apikey) for the pattern
\* ^[A-Za-z0-9\-_]+$; Python's $ matches at the end of the string and also
\* just before a newline that ends the string.
RegexApikeyMatch(s) ==
    LET body == IF Len(s) >= 1 /\ SubSeq(s, Len(s), Len(s)) = "\n"
                THEN SubSeq(s, 1, Len(s) - 1)
                ELSE s
    IN Len(body) >= 1 /\ AllKeyChars(body)

\* client.py 12-25: the exception raised ("none" when it returns).
SetupClientSettingRaised(key, tmo) ==
    IF key.py = "None" THEN "TypeError"
    ELSE IF key.py # "str" THEN "TypeError"
    ELSE IF ~RegexApikeyMatch(key.v) THEN "ValueError"
    ELSE IF tmo.py # "float" THEN "TypeError"
    ELSE "none"

\* client.py 22-25
SetupClientSetting(key, tmo) == [apikey |-> key, timeout |-> tmo]

\* http.py 213-215
HTTPModule(client_setting) == [client_setting |-> client_setting]

\* client.py 32: timeout: float = 10.0
DefaultTimeout == PyFloat("10.0")

\* The characters API keys are made of here, and the keys.
KeyAlphabet == {"k", "7", "-", "_", "!", "\n"}

RECURSIVE KeysOfLen(_)
KeysOfLen(n) == IF n = 0 THEN {""} ELSE {k \o c : k \in KeysOfLen(n - 1), c \in KeyAlphabet}

ApikeyArgs ==
    {PyStr(k) : k \in UNION {KeysOfLen(n) : n \in 0..MaxKeyLen}}
    \cup {PyStr("demo"), PyStr("th!si,ssoinvalid!"), PyNone, PyIntArg("5"), NoArg}

TimeoutArgs == {NoArg, PyFloat("2.5"), PyIntArg("10")}

\* A caller about to make a Client of some arguments.
InitClient ==
    /\ apikey \in ApikeyArgs
    /\ timeout \in TimeoutArgs
    /\ client = NoClient
    /\ filt = <<>>
    /\ start = 0
    /\ end = 0
    /\ tasks = <<>>
    /\ taskState = <<>>
    /\ firstError = 0
    /\ completed = <<>>
    /\ overtaken = FALSE
    /\ answers = <<>>
    /\ pool = NoPool
    /\ mapped = NoShards
    /\ states = <<>>
    /\ exchanges = <<>>
    /\ exchange = "unbound"
    /\ array = <<>>
    /\ pc = "idle"
    /\ error = NoError
    /\ streamed = <<>>
    /\ streamState = "idle"
    /\ rfilter = <<>>
    /\ defs = <<>>
    /\ raw_array = <<>>
    /\ returns = <<>>
    /\ result = <<>>
    /\ rpc = "idle"
    /\ rerror = NoError
    /\ rstream = "idle"
    /\ rstreamed = <<>>
    /\ itr = NoIterator
    /\ pulled = <<>>
    /\ itrRaised = "none"
    /\ response = NoResponse
    /\ converted = <<>>
    /\ fpc = "idle"
    /\ ferror = "none"

\* client.py 30-40: Client.__init__; a call without apikey is a TypeError of
\* the call itself, a call without timeout takes the default.
ClientInit ==
    /\ client = NoClient
    /\ LET tmo == IF timeout = NoArg THEN DefaultTimeout ELSE timeout
           raised == IF apikey = NoArg THEN "TypeError"
                     ELSE SetupClientSettingRaised(apikey, tmo)
       IN client' = IF raised # "none"
                    THEN [state |-> "raised", kind |-> raised]
                    ELSE [state |-> "created",
                          setting |-> SetupClientSetting(apikey, tmo),
                          http |-> HTTPModule(SetupClientSetting(apikey, tmo))]
    /\ UNCHANGED <<apikey, timeout, dvars, rvars, ivars, fvars>>

NextClient == ClientInit

SpecClient == InitClient /\ [][NextClient]_vars

\* ------------------------------------------------------------------ C16
HasForeignChar(s) == \E i \in 1..Len(s) : SubSeq(s, i, i) \notin KeyChars

\* C16: without an API key Client() raises TypeError; with a key holding a
\* character other than letters, digits, hyphen and underscore it raises
\* ValueError; with a key of such characters only (and a float timeout, given
\* or default) it succeeds and keeps the key and the timeout as its setting.
C16_ClientCreation ==
    client # NoClient =>
        /\ apikey \in {NoArg, PyNone} =>
              client = [state |-> "raised", kind |-> "TypeError"]
        /\ (apikey.py = "str" /\ HasForeignChar(apikey.v)) =>
              client = [state |-> "raised", kind |-> "ValueError"]
        /\ (apikey.py = "str" /\ Len(apikey.v) >= 1 /\ ~HasForeignChar(apikey.v)
               /\ timeout.py # "int") =>
              /\ client.state = "created"
              /\ client.setting.apikey = apikey
              /\ client.setting.timeout = IF timeout = NoArg THEN DefaultTimeout ELSE timeout

\* ================================================================== iterator alone
\* The exchange whose shards the iterator is made over.
IteratorExchange == "a"

\* The shard lists an exchange can have: one to three shards.
ShardCounts == 1..3

\* raw.py 141-142: shards of one exchange out of exc_shards, and
\* itr = _ShardsLineIterator(shards), not pulled yet.
InitIterator ==
    /\ \E k \in ShardCounts : \E content \in ExchangeShardLists(k) :
          mapped = [keys |-> <<IteratorExchange>>,
                    shards |-> (IteratorExchange :>
                                  [j \in 1..k |-> ShardLines(IteratorExchange, content[j])])]
    /\ itr = ShardsLineIterator(IteratorExchange)
    /\ pulled = <<>>
    /\ itrRaised = "none"
    /\ response = NoResponse
    /\ converted = <<>>
    /\ fpc = "idle"
    /\ ferror = "none"
    /\ filt = <<IteratorExchange>>
    /\ start = 0
    /\ end = 0
    /\ tasks = <<>>
    /\ taskState = <<>>
    /\ firstError = 0
    /\ completed = <<>>
    /\ overtaken = FALSE
    /\ answers = <<>>
    /\ pool = NoPool
    /\ states = <<>>
    /\ exchanges = <<>>
    /\ exchange = "unbound"
    /\ array = <<>>
    /\ pc = "idle"
    /\ error = NoError
    /\ streamed = <<>>
    /\ streamState = "idle"
    /\ rfilter = <<>>
    /\ defs = <<>>
    /\ raw_array = <<>>
    /\ returns = <<>>
    /\ result = <<>>
    /\ rpc = "idle"
    /\ rerror = NoError
    /\ rstream = "idle"
    /\ rstreamed = <<>>
    /\ apikey = NoArg
    /\ timeout = NoArg
    /\ client = NoClient

\* raw.py 50-60: next(itr), by a caller that keeps pulling after an exception.
IteratorNext ==
    /\ LET r == ShardsLineIteratorNext(mapped.shards, itr)
       IN /\ itr' = r.it
          /\ itrRaised' = r.raised
          /\ pulled' = IF r.raised = "none" THEN Append(pulled, r.line) ELSE pulled
    /\ UNCHANGED <<dvars, rvars, cvars, fvars>>

NextIterator == IteratorNext

SpecIterator == InitIterator /\ [][NextIterator]_vars

\* ------------------------------------------------------------------ C17
IsPrefix(s, t) == Len(s) <= Len(t) /\ s = SubSeq(t, 1, Len(s))

\* C17: what repeated pulls have returned is the beginning of the concatenation
\* of the shards in shard order; a pull raises nothing but StopIteration, and
\* raises it only when every line of every shard has been returned.
C17_SequencerYieldsConcatenation ==
    /\ IsPrefix(pulled, Fetched(IteratorExchange))
    /\ itrRaised \in {"none", "StopIteration"}
    /\ itrRaised = "StopIteration" => pulled = Fetched(IteratorExchange)

\* ------------------------------------------------------------------ C18
\* A step of the merge loop that appends a line; the exchange of that line.
Emitting == pc = "merging" /\ Len(array') = Len(array) + 1
Emitter == array'[Len(array')].exchange

\* The cursor of e has no further line: its next() raises.
CursorExhausted(e) == ShardsLineIteratorNext(mapped.shards, states[e].iterator).raised # "none"

ExchangeLines(lines, e) == SelectSeq(lines, LAMBDA l : l.exchange = e)

\* C18: in every step of the merge loop that emits a line, the emitter is an
\* active exchange and its lines emitted so far are the beginning of its
\* shards' lines (no head twice); when its cursor is exhausted the loop goes on
\* with exactly the emitter removed from the active exchanges and every other
\* head as it was; when it is not, the active exchanges stay as they are.
C18_ExactlyEmitterRetired ==
    [][Emitting =>
          /\ InList(exchanges, Emitter)
          /\ IsPrefix(ExchangeLines(array', Emitter), Fetched(Emitter))
          /\ IF CursorExhausted(Emitter)
             THEN /\ pc' = "merging"
                  /\ exchanges' = ListRemove(exchanges, Emitter)
                  /\ \A i \in 1..Len(exchanges') :
                        states'[exchanges'[i]].last_line = states[exchanges'[i]].last_line
             ELSE exchanges' = exchanges]_vars

\* ------------------------------------------------------------------ C19
\* C19: a download() whose merge loop has emitted a line ends by returning the
\* list, with no exchange left active and nothing raised.
C19_MergeTerminatesNormally ==
    (Finished /\ array # <<>>) =>
        /\ pc = "returned"
        /\ exchanges = <<>>
        /\ error = NoError

\* ------------------------------------------------------------------ C20
FilterPosition(e) == CHOOSE i \in 1..Len(filt) : filt[i] = e

RankInExchange(i) ==
    Cardinality({j \in 1..i : tasks[j].exchange = tasks[i].exchange})

\* C21: while the pool runs the tasks of a download(), no more tasks are being
\* run than the pool has processes, and once pool.map has returned, the result
\* regrouped from position i is the shard made from the answer to task i, for
\* every i, whatever order the tasks finished in.
C21_BoundedAndInSubmissionOrder ==
    /\ pool.state = "running" => Cardinality(Running) <= pool.processes
    /\ mapped # NoShards =>
          \A i \in 1..Len(tasks) :
              /\ Len(mapped.shards[tasks[i].exchange]) >= RankInExchange(i)
              /\ mapped.shards[tasks[i].exchange][RankInExchange(i)]
                   = RunnerDownloadAllShards(tasks[i], Answer(tasks[i], answers[i]))

\* More tasks than the pool ever ran at once, one finished before a task
\* submitted earlier, and results of one exchange that differ.
C21_Witness ==
    /\ mapped # NoShards
    /\ overtaken
    /\ Len(tasks) > MaxConcurrency
    /\ \E i, j \in 1..Len(tasks) :
          /\ i < j
          /\ tasks[i].exchange = tasks[j].exchange
          /\ answers[i] # answers[j]
          /\ answers[i] # <<>>
          /\ answers[j] # <<>>

\* ------------------------------------------------------------------ C22
\* Line k is a MESSAGE on a channel that has a definition when it arrives.
HasDefinitionAt(h, k) == h[k].type = "msg" /\ ~FirstMessageSinceReset(h, k)

\* The line whose message is the definition in effect when line k arrives.
DefinitionLine(h, k) ==
    CHOOSE j \in 1..(k - 1) :
        /\ FirstMessageSinceReset(h, j)
        /\ IsMessageOn(h[j], h[k].exchange, h[k].channel)
        /\ \A i \in (j + 1)..(k - 1) : ~IsStartOf(h[i], h[k].exchange)

DefinitionAt(h, k) == JsonLoads(h[DefinitionLine(h, k)].message).json
PayloadAt(h, k) == JsonLoads(h[k].message).json

\* Line k lacks a field its channel's definition types as timestamp or duration.
LacksTypedField(h, k) ==
    /\ HasDefinitionAt(h, k)
    /\ \E name \in TypedNames(DefinitionAt(h, k)) : name \notin DOMAIN PayloadAt(h, k)

\* C22: a MESSAGE on a channel that has a definition, whose payload lacks a
\* field the definition types as timestamp or duration, makes process_raw_line
\* raise: the call returns neither a line nor None, whether or not the line's
\* new channel is in the requested filter.
C22_MissingTypedFieldRaises ==
    \A k \in 1..Len(raw_array) :
        LacksTypedField(raw_array, k) => returns[k] = [type |-> "raised"]

\* ------------------------------------------------------------------ C23
\* This step is a call of process_raw_line, and Given is the line it is given.
Processing == Len(raw_array') = Len(raw_array) + 1
Given == raw_array'[Len(raw_array')]

\* The definitions of exchange e, none if the decoder has not met e.
DefinitionsOf(d, e) == IF e \in DOMAIN d THEN d[e] ELSE <<>>

\* C23: a call of process_raw_line with a line that is not a MESSAGE returns
\* that very line, which download() appends once to its result, raises
\* nothing, and leaves the definitions of every exchange as they were, except
\* that a START line leaves its own exchange without definitions.
C23_NonMessagePassesThrough ==
    [][(Processing /\ Given.type # "msg") =>
          /\ returns' = Append(returns, Given)
          /\ result' = Append(result, Given)
          /\ rpc' = rpc
          /\ \A e \in DOMAIN defs \cup DOMAIN defs' :
                DefinitionsOf(defs', e)
                  = IF Given.type = "start" /\ e = Given.exchange
                    THEN <<>>
                    ELSE DefinitionsOf(defs, e)]_vars

\* A definition learned, then an ERROR line and a START line of the other
\* exchange, both handed on, and the definition still there.
C23_Witness ==
    /\ Len(raw_array) = 3
    /\ raw_array[1].type = "msg"
    /\ raw_array[2].type = "err"
    /\ raw_array[2].exchange = raw_array[1].exchange
    /\ raw_array[3].type = "start"
    /\ raw_array[3].exchange # raw_array[1].exchange
    /\ result = <<raw_array[2], raw_array[3]>>
    /\ defs[raw_array[1].exchange] # <<>>
    /\ defs[raw_array[3].exchange] = <<>>

\* ------------------------------------------------------------------ C24
\* Line k was decoded and handed on as a MESSAGE.
EmittedMessage(k) ==
    /\ HasDefinitionAt(raw_array, k)
    /\ returns[k] \notin {NoLine, [type |-> "raised"]}

\* The definition types this field as timestamp or duration.
TaggedForInteger(defn, name) ==
    /\ name \in DOMAIN defn
    /\ defn[name] \in {Str("timestamp"), Str("duration")}

\* The integer is the one the decimal string spells: the string is the
\* integer's digits, after leading zeros if any.
SpelledBy(int, str) ==
    /\ int.t = "int"
    /\ str.t = "str"
    /\ \E n \in 0..(Len(str.v) - 1) :
          /\ \A i \in 1..n : SubSeq(str.v, i, i) = "0"
          /\ SubSeq(str.v, n + 1, Len(str.v)) = int.v
          /\ (Len(int.v) > 1 => SubSeq(int.v, 1, 1) # "0")
    /\ \A i \in 1..Len(int.v) :
          SubSeq(int.v, i, i) \in {"0", "1", "2", "3", "4", "5", "6", "7", "8", "9"}

\* C24: in every MESSAGE line the decoder hands on, the message has the fields
\* of the payload; a field the channel's definition types as timestamp or
\* duration, if not null, holds the integer its decimal string spells, and
\* every other field (null, typed otherwise, or not in the definition) is as in
\* the payload; and decoding a data line leaves the channel's definition the
\* message of the line it was learned from.
C24_TypedFieldsBecomeIntegers ==
    /\ \A k \in 1..Len(raw_array) :
          EmittedMessage(k) =>
              LET defn == DefinitionAt(raw_array, k)
                  payload == PayloadAt(raw_array, k)
                  msgObj == returns[k].message.json
              IN /\ returns[k].type = "msg"
                 /\ DOMAIN msgObj = DOMAIN payload
                 /\ \A name \in DOMAIN payload :
                       IF TaggedForInteger(defn, name) /\ payload[name] # Null
                       THEN SpelledBy(msgObj[name], payload[name])
                       ELSE msgObj[name] = payload[name]
    /\ (Len(raw_array) > 0 /\ HasDefinitionAt(raw_array, Len(raw_array))) =>
          defs[LastLine.exchange][LastLine.channel]
            = JsonLoads(raw_array[DefinitionLine(raw_array, Len(raw_array))].message)

\* A definition typing "timestamp" as duration, then a line whose timestamp
\* became an integer and a line whose timestamp stayed null, both handed on.
C24_Witness ==
    /\ Len(raw_array) = 3
    /\ raw_array[1].message = JsonText(DurationPayload)
    /\ EmittedMessage(2)
    /\ returns[2].message.json["timestamp"] = PyInt("1577836800000000000")
    /\ returns[2].message.json["pair"] = Str("XBTUSD")
    /\ EmittedMessage(3)
    /\ returns[3].message.json["timestamp"] = Null

\* ------------------------------------------------------------------ C25
HasUnderscore(channel) == \E i \in 1..Len(channel) : SubSeq(channel, i, i) = "_"

\* C25: a MESSAGE line the decoder hands on carries, for exchange "bitmex" and
\* a raw channel without underscore, the raw channel followed by "_" and the
\* value of the payload's field "pair"; for "bitmex" and a raw channel with an
\* underscore, and for every other exchange, the raw channel itself.
C25_ChannelNormalization ==
    \A k \in 1..Len(raw_array) :
        EmittedMessage(k) =>
            returns[k].channel
              = IF raw_array[k].exchange = "bitmex" /\ ~HasUnderscore(raw_array[k].channel)
                THEN raw_array[k].channel \o "_" \o PayloadAt(raw_array, k)["pair"].v
                ELSE raw_array[k].channel

\* A "bitmex" line of raw channel "trade" handed on as "trade_XBTUSD".
C25_Witness ==
    /\ Len(raw_array) >= 2
    /\ raw_array[2].exchange = "bitmex"
    /\ raw_array[2].channel = "trade"
    /\ EmittedMessage(2)
    /\ returns[2].channel = "trade_XBTUSD"
    /\ returns[2].message.json["pair"] = Str("XBTUSD")

\* ------------------------------------------------------------------ C26
\* The instruments a payload's field "pair" names.
Instruments == {"XBTUSD", "ETHUSD"}

\* The channel the decoder hands a line of raw channel r on under, when the
\* payload names the instrument.
NormalizedChannel(e, r, instrument) == NewChannel(e, r, [pair |-> Str(instrument)]).channel

\* C26: once download() of a replay request has made its raw request, the raw
\* filter has the exchanges of the replay filter, and for each requested
\* channel c of an exchange it holds a raw channel r of that exchange that the
\* decoder hands on as c for some instrument; no task exists before.
C26_RawFilterCoversReplayFilter ==
    /\ rpc \in {"new", "constructed", "rejected"} => tasks = <<>>
    /\ rpc \in {"decoding", "returned", "raised"} =>
          LET raw == ConvertReplayFilterToRawFilter(rfilter)
          IN /\ DOMAIN raw = DOMAIN rfilter
             /\ {filt[j] : j \in 1..Len(filt)} = DOMAIN rfilter
             /\ \A e \in DOMAIN rfilter : \A i \in 1..Len(rfilter[e]) :
                   \E r \in raw[e] : \E instrument \in Instruments :
                       NormalizedChannel(e, r, instrument) = rfilter[e][i]

\* ================================================================== http._filter
\* Wire lines in one answer of the filter endpoint at most.
MaxWireLines == 2

Tab == "\t"
LineFeed == "\n"

\* str.find: the 0-based index of the first sep at or after index i, -1 if none.
RECURSIVE FindFrom(_, _, _)
FindFrom(l, sep, i) ==
    IF i >= Len(l) THEN -1
    ELSE IF SubSeq(l, i + 1, i + 1) = sep THEN i
    ELSE FindFrom(l, sep, i + 1)

Find(l, sep) == FindFrom(l, sep, 0)

\* l[:stop] for stop >= -1
SliceTo(l, stop) == IF stop < 0 THEN SubSeq(l, 1, Len(l) + stop) ELSE SubSeq(l, 1, stop)

\* str.split(sep, maxsplit)
RECURSIVE Split(_, _, _)
Split(l, sep, maxsplit) ==
    LET idx == Find(l, sep)
    IN IF maxsplit = 0 \/ idx = -1 THEN <<l>>
       ELSE <<SubSeq(l, 1, idx)>> \o Split(SubSeq(l, idx + 2, Len(l)), sep, maxsplit - 1)

\* str.splitlines(False) of a text whose only line terminator is the line feed.
RECURSIVE SplitLines(_)
SplitLines(content) ==
    LET idx == Find(content, LineFeed)
    IN IF content = "" THEN <<>>
       ELSE IF idx = -1 THEN <<content>>
       ELSE <<SubSeq(content, 1, idx)>> \o SplitLines(SubSeq(content, idx + 2, Len(content)))

\* int(s) of a decimal string
RECURSIVE IntOf(_)
IntOf(s) ==
    IF s = "" THEN 0
    ELSE 10 * IntOf(SubSeq(s, 1, Len(s) - 1))
         + (CHOOSE d \in 0..9 : SubSeq("0123456789", d + 1, d + 1) = SubSeq(s, Len(s), Len(s)))

\* common.LineTypeValueOf
LineTypeValueOf ==
    [t \in {"msg", "send", "start", "end", "err"} |-> t]

Converted(line) == [raised |-> "none", line |-> line]
ConvertRaises(kind) == [raised |-> kind, line |-> NoLine]

\* http.py 137-163 with a list of `used` fields of split read: IndexError when
\* the line has fewer, ValueError when the second is no decimal number.
Fields(exch, l, maxsplit, used) ==
    LET split == Split(l, Tab, maxsplit)
    IN IF Len(split) < 2 THEN ConvertRaises("IndexError")
       ELSE IF ~IsDecimal(split[2]) THEN ConvertRaises("ValueError")
       ELSE IF Len(split) < used THEN ConvertRaises("IndexError")
       ELSE Converted(TextLine(exch, LineTypeValueOf[split[1]], IntOf(split[2]),
                               IF used >= 3 THEN PyStr(split[3]) ELSE PyNone,
                               IF used >= 4 THEN PyStr(split[4]) ELSE PyNone))

\* http.py 121-163: one wire line made a TextLine, or the exception raised.
ConvertLine(exch, l) ==
    LET lineTypeStr == SliceTo(l, Find(l, Tab))
    IN IF lineTypeStr \notin DOMAIN LineTypeValueOf THEN ConvertRaises("RuntimeError")
       ELSE LET lineType == LineTypeValueOf[lineTypeStr]
            IN IF lineType \in {"msg", "send"} THEN Fields(exch, l, 4, 4)
               ELSE IF lineType \in {"start", "end"} THEN Fields(exch, l, 3, 3)
               ELSE Fields(exch, l, 2, 2)

\* The wire lines of the content format, one of each kind, and one of a kind
\* that does not exist.
WellFormedLines ==
    { "msg" \o Tab \o "5" \o Tab \o "ch" \o Tab \o "m",
      "send" \o Tab \o "5" \o Tab \o "ch" \o Tab \o "m",
      "start" \o Tab \o "5" \o Tab \o "url",
      "end" \o Tab \o "6",
      "err" \o Tab \o "6" }
WireLines == WellFormedLines \cup {"ping" \o Tab \o "7"}

RECURSIVE Contents(_)
Contents(n) ==
    IF n = 0 THEN {""}
    ELSE Contents(n - 1)
         \cup {c \o l \o LineFeed : c \in Contents(n - 1), l \in WireLines}

\* What _download returns to _filter: 404, or 200 and a content.
Responses ==
    {[status_code |-> 404, content |-> ""]}
    \cup {[status_code |-> 200, content |-> c] : c \in Contents(MaxWireLines)}

\* The exchange _filter is called for.
FilterExchange == "a"

InitFilter ==
    /\ response = NoResponse
    /\ converted = <<>>
    /\ fpc = "idle"
    /\ ferror = "none"
    /\ apikey = NoArg
    /\ timeout = NoArg
    /\ client = NoClient
    /\ itr = NoIterator
    /\ pulled = <<>>
    /\ itrRaised = "none"
    /\ rfilter = <<>>
    /\ defs = <<>>
    /\ raw_array = <<>>
    /\ returns = <<>>
    /\ result = <<>>
    /\ rpc = "idle"
    /\ rerror = NoError
    /\ rstream = "idle"
    /\ rstreamed = <<>>
    /\ filt = <<>>
    /\ start = 0
    /\ end = 0
    /\ tasks = <<>>
    /\ taskState = <<>>
    /\ firstError = 0
    /\ completed = <<>>
    /\ overtaken = FALSE
    /\ answers = <<>>
    /\ pool = NoPool
    /\ mapped = NoShards
    /\ states = <<>>
    /\ exchanges = <<>>
    /\ exchange = "unbound"
    /\ array = <<>>
    /\ pc = "idle"
    /\ error = NoError
    /\ streamed = <<>>
    /\ streamState = "idle"

\* http.py 108-118: _download answers; a 404 returns an empty list at once,
\* anything else has its content split into lines.
FilterDownload(r) ==
    /\ fpc = "idle"
    /\ response' = r
    /\ fpc' = IF r.status_code = 404 THEN "returned" ELSE "converting"
    /\ UNCHANGED <<converted, ferror, dvars, rvars, cvars, ivars>>

\* http.py 121-163: one iteration of the loop over lines.
FilterConvert ==
    /\ fpc = "converting"
    /\ Len(converted) < Len(SplitLines(response.content))
    /\ LET r == ConvertLine(FilterExchange, SplitLines(response.content)[Len(converted) + 1])
       IN IF r.raised = "none"
          THEN converted' = Append(converted, r.line) /\ UNCHANGED <<fpc, ferror>>
          ELSE fpc' = "raised" /\ ferror' = r.raised /\ UNCHANGED converted
    /\ UNCHANGED <<response, dvars, rvars, cvars, ivars>>

\* http.py 121 and 165: every line is converted, result is returned.
FilterReturn ==
    /\ fpc = "converting"
    /\ Len(converted) = Len(SplitLines(response.content))
    /\ fpc' = "returned"
    /\ UNCHANGED <<response, converted, ferror, dvars, rvars, cvars, ivars>>

NextFilter ==
    \/ \E r \in Responses : FilterDownload(r)
    \/ FilterConvert
    \/ FilterReturn

SpecFilter == InitFilter /\ [][NextFilter]_vars

\* ------------------------------------------------------------------ C27
\* The answer is a 200 whose lines are all of the content format.
WellFormedContent ==
    /\ response.status_code = 200
    /\ \A i \in 1..Len(SplitLines(response.content)) :
          SplitLines(response.content)[i] \in WellFormedLines

\* C27: a call of _filter given a content of well-formed wire lines raises
\* nothing, and every TextLine it makes has a channel and a message if its
\* type is MESSAGE, SEND or START, and neither if its type is END or ERROR; so
\* an END line of type and timestamp alone and an ERROR line are each made a
\* TextLine.
C27_PresenceDeterminedByKind ==
    WellFormedContent =>
        /\ fpc # "raised"
        /\ \A i \in 1..Len(converted) :
              IF converted[i].type \in {"msg", "send", "start"}
              THEN converted[i].channel # PyNone /\ converted[i].message # PyNone
              ELSE converted[i].channel = PyNone /\ converted[i].message = PyNone

\* ------------------------------------------------------------------ C28
\* Line k is a MESSAGE whose channel has a definition, and a START line of
\* another exchange came between the line the definition was learned from and
\* line k.
ForeignStartSinceDefinition(h, k) ==
    /\ HasDefinitionAt(h, k)
    /\ \E i \in (DefinitionLine(h, k) + 1)..(k - 1) :
          h[i].type = "start" /\ h[i].exchange # h[k].exchange

\* The channel line k is handed on under, if it is.
ChannelHandedOn(h, k) ==
    IF h[k].exchange = "bitmex" /\ ~HasUnderscore(h[k].channel)
    THEN h[k].channel \o "_" \o PayloadAt(h, k)["pair"].v
    ELSE h[k].channel

\* C28: a MESSAGE on a channel that had a definition before a START line of
\* another exchange is decoded as data by that same definition: the call does
\* not store its message as the definition, returns None only if the line's
\* channel is not requested, and otherwise hands the line on converted as the
\* definition says.
C28_StartLeavesOtherExchanges ==
    \A k \in 1..Len(raw_array) :
        ForeignStartSinceDefinition(raw_array, k) =>
            LET defn == DefinitionAt(raw_array, k)
                payload == PayloadAt(raw_array, k)
            IN /\ k = Len(raw_array) =>
                    defs[raw_array[k].exchange][raw_array[k].channel]
                      = JsonLoads(raw_array[DefinitionLine(raw_array, k)].message)
               /\ returns[k] = NoLine =>
                    ChannelHandedOn(raw_array, k)
                      \notin PostFilter(rfilter)[raw_array[k].exchange]
               /\ EmittedMessage(k) =>
                    \A name \in DOMAIN payload :
                        IF TaggedForInteger(defn, name) /\ payload[name] # Null
                        THEN SpelledBy(returns[k].message.json[name], payload[name])
                        ELSE returns[k].message.json[name] = payload[name]

\* A definition learned on one exchange, a START line of the other exchange,
\* then a data line on the first, handed on with its timestamp an integer.
C28_Witness ==
    /\ Len(raw_array) = 3
    /\ raw_array[1].message = JsonText(SchemaPayload)
    /\ raw_array[2].type = "start"
    /\ raw_array[2].exchange # raw_array[1].exchange
    /\ ForeignStartSinceDefinition(raw_array, 3)
    /\ raw_array[3].message = JsonText(DataPayload)
    /\ EmittedMessage(3)
    /\ returns[3].message.json["timestamp"] = PyInt("1577836800000000000")
    /\ DOMAIN defs[raw_array[2].exchange] = {}
====
